---- MODULE Spec2Model ----
(***************************************************************************)
(* A model of static_any<_N> (any.hpp): a fixed-capacity type-erased value *)
(* container made of an inline byte buffer buff_ and one dispatcher        *)
(* pointer function_.                                                      *)
(*                                                                         *)
(* Payload objects are followed through their life: every object placed in *)
(* a buffer gets an identity in objs, which counts how often the           *)
(* dispatcher's destroy operation has run on it.  A buffer holds the bytes *)
(* of an object (its type, its value, and which object the bytes are);     *)
(* copying a buffer copies the bytes, it constructs nothing.  Between      *)
(* operations the object whose bytes container c holds is numbered Id(c);  *)
(* the objects whose bytes the last operation left in no buffer are gone.  *)
(***************************************************************************)
EXTENDS Integers, FiniteSets, Sequences, TLC

\* ------------------------------------------------------------------ bounds
\* Payload values are 1..MaxVal.
MaxVal == 2
\* One operation handles at most MaxObjects payload objects: the two the
\* containers hold and those it constructs.
MaxObjects == 5
\* A byte of a trivially copyable value is one of 0 .. MaxByte.
MaxByte == 1

\* --------------------------------------------------------- payload types
NULL == "null"

\* The payload types the operations are instantiated with.
Types == {"int", "string", "CallCounter", "unsafe_to_copy", "throwing_move",
          "big"}

\* sizeof(_T) of the payload types.
sizeof(T) ==
    CASE T = "int" -> 4
      [] T = "string" -> 32
      [] T = "CallCounter" -> 1
      [] T = "unsafe_to_copy" -> 1
      [] T = "throwing_move" -> 1
      [] T = "big" -> 128

\* operation_t::query_size, had it taken the size of the pointer this_ptr.
query_size_of_pointer(T) == 8

\* operation_t::query_size: sizeof(_T).
query_size(T) == sizeof(T)

\* std::is_nothrow_copy_constructible<_T>: CallCounter and unsafe_to_copy
\* declare a copy constructor without noexcept, std::string's allocates.
is_nothrow_copy_constructible(T) == T \in {"int", "throwing_move", "big"}

\* std::is_nothrow_move_constructible<_T>; unsafe_to_copy declares a copy
\* constructor and so has no move constructor: moving it copies it.
is_nothrow_move_constructible(T) == T \in {"int", "string", "big"}

\* The types whose copy constructor can throw: a constructor that is not
\* noexcept need not throw (CallCounter's only count).
CopyCanThrow(T) == T \in {"string", "unsafe_to_copy"}

\* The types whose move construction can throw.
MoveCanThrow(T) == T \in {"unsafe_to_copy", "throwing_move"}

\* unsafe_to_copy's copy constructor is [[noreturn]]: every copy of one, and
\* every move (which copies), throws.
AlwaysThrows(T) == T = "unsafe_to_copy"

\* The types whose constructor from emplace's arguments can throw.
CtorCanThrow(T) == T = "string"

\* operation_t::query_noexcept
query_noexcept(T) ==
    is_nothrow_copy_constructible(T) \/ is_nothrow_move_constructible(T)

\* Types whose move constructor leaves the source with another value.
MoveChangesSource(T) == T \in {"string", "throwing_move"}

\* Implicit-lifetime types: copying their bytes into storage makes an object.
ImplicitLifetime(T) == T \in {"int", "unsafe_to_copy", "big"}

\* The value a moved-from object of a MoveChangesSource type is left with.
MovedFromVal == 0

\* The values of a type: an int is one of 1 .. MaxVal, a class type has one
\* value (and MovedFromVal once moved from, if its move changes the source).
Values(T) == IF T = "int" THEN 1 .. MaxVal ELSE {1}

\* ------------------------------------------------------------ containers
Containers == {"a", "b"}

\* The template parameter _N of each container.
N(c) == IF c = "a" THEN 32 ELSE 64

\* static_any::capacity
capacity(c) == N(c)

\* operation<_T> is a static function template: every translation unit that
\* instantiates it has its own instance, with its own address.  The
\* operations are called from "test"; "dyn_lib" is the library the tests link.
Units == {"test", "dyn_lib"}

\* Indeterminate bytes: a buffer nothing was constructed in.
Garbage == [type |-> NULL, val |-> 0, id |-> 0]

ObjIds == 1 .. MaxObjects
\* An object: the container it was constructed in, its type, how often its
\* destructor has run in all (dtors) and, for the operation under way, how
\* it was constructed (by) and how often its destructor ran (killed).
NoObj == [owner |-> NULL, type |-> NULL, dtors |-> 0, by |-> NULL,
          killed |-> 0]

\* The number of the object whose bytes container c holds.
Id(c) == IF c = "a" THEN 1 ELSE 2

VARIABLES
    alive,      \* alive[c]: the container object exists (constructed, not destroyed)
    function_,  \* function_[c]: the type the bound dispatcher is for, or NULL
    buff_,      \* buff_[c]: the bytes of the buffer
    objs,       \* objs[i]: the payload object i: its container, type, destroy count
    gone,       \* the objects the last operation left in no buffer, in order
    last,       \* the last operation: what it was and how it ended
    unit,       \* unit[c]: the translation unit whose operation<_T> is bound
    tbuff       \* tbuff[t]: the bytes of static_any_t t, <<>> while there is none

vars == <<alive, function_, buff_, objs, gone, last, unit, tbuff>>

\* -------------------------------------------------------- static_any_t
\* The trivial containers, both static_any_t<sizeof(short)>.
TContainers == {"ta", "tb"}

\* The template parameter _N of static_any_t: capacity().
TN(t) == 2

\* The trivially copyable types stored in them, and their sizeof.
TTypes == {"char", "short"}
tsizeof(T) == IF T = "char" THEN 1 ELSE 2

Bytes == 0 .. MaxByte

\* The object representations of n bytes.
Reps(n) == [1 .. n -> Bytes]

\* std::memcpy, had it been given a count one too small.
memcpy_one_short(dst, src, n) ==
    [i \in 1 .. Len(dst) |-> IF i <= n - 1 THEN src[i] ELSE dst[i]]

\* std::memcpy(dst, src, n)
memcpy(dst, src, n) ==
    [i \in 1 .. Len(dst) |-> IF i <= n THEN src[i] ELSE dst[i]]

\* static_any_t::copy, had it cleared the bytes after the value.
copy_clearing_tail(buff, t, n) ==
    [i \in 1 .. Len(buff) |-> IF i <= n THEN t[i] ELSE 0]

\* static_any_t::copy: memcpy(&buff_, &t, sizeof(_ValueT)), for t of size n.
copy(buff, t, n) == memcpy(buff, t, n)

\* static_any_t::get<_ValueT>: *reinterpret_cast<_ValueT*>(&buff_), for a
\* _ValueT of size n.
tget(buff, n) == SubSeq(buff, 1, n)

\* ------------------------------------------------------- payload objects
\* The identity the next constructed object gets: one no object has.
Alloc(o) == CHOOSE i \in ObjIds : o[i].owner = NULL

\* A T object comes to life in owner's buffer, by the constructor how.
Born(o, owner, T, how) ==
    [o EXCEPT ![Alloc(o)] = [owner |-> owner, type |-> T, dtors |-> 0,
                             by |-> how, killed |-> 0]]

\* operation_t::destroy: this_ptr->~_T() runs on the object the bytes are.
\* dtors counts the runs: 0, 1, and 2 for twice or more.
op_destroy(o, buf) ==
    IF buf.id \in ObjIds
    THEN [o EXCEPT ![buf.id].dtors = IF @ = 0 THEN 1 ELSE 2,
                   ![buf.id].killed = IF @ = 0 THEN 1 ELSE 2]
    ELSE o

\* operation_t::copy, had it default-constructed the new object.
op_copy_losing_value(T, o, owner, src) ==
    [buf  |-> [type |-> T, val |-> MovedFromVal, id |-> Alloc(o)],
     objs |-> Born(o, owner, T, "copy"),
     src  |-> src]

\* operation_t::copy: new(this_ptr) _T(*other_ptr).  The result is the new
\* buffer, the object table and the (unchanged) source bytes.
op_copy(T, o, owner, src) ==
    [buf  |-> [type |-> T, val |-> src.val, id |-> Alloc(o)],
     objs |-> Born(o, owner, T, "copy"),
     src  |-> src]

\* operation_t::move, had it called the copy constructor.
op_move_by_copy(T, o, owner, src) ==
    [buf  |-> [type |-> T, val |-> src.val, id |-> Alloc(o)],
     objs |-> Born(o, owner, T, "copy"),
     src  |-> src]

\* operation_t::move, had it constructed from a source already moved from.
op_move_losing_value(T, o, owner, src) ==
    [buf  |-> [type |-> T, val |-> MovedFromVal, id |-> Alloc(o)],
     objs |-> Born(o, owner, T, "move"),
     src  |-> IF MoveChangesSource(T)
              THEN [src EXCEPT !.val = MovedFromVal]
              ELSE src]

\* operation_t::move: new(this_ptr) _T(std::move(*other_ptr)).
op_move(T, o, owner, src) ==
    [buf  |-> [type |-> T, val |-> src.val, id |-> Alloc(o)],
     objs |-> Born(o, owner, T, "move"),
     src  |-> IF MoveChangesSource(T)
              THEN [src EXCEPT !.val = MovedFromVal]
              ELSE src]

\* Whether the constructor an operation invokes may throw.
MayThrow(T, isMove) == IF isMove THEN MoveCanThrow(T) ELSE CopyCanThrow(T)

\* static_any::destroy, had it only unbound the dispatcher.
destroy_without_destructor(fn, buf, o) ==
    IF fn # NULL
    THEN [fn |-> NULL, buf |-> Garbage, objs |-> o]
    ELSE [fn |-> fn, buf |-> buf, objs |-> o]

\* static_any::destroy.  The bytes a destroyed object leaves behind are
\* indeterminate.
destroy(fn, buf, o) ==
    IF fn # NULL
    THEN [fn |-> NULL, buf |-> Garbage, objs |-> op_destroy(o, buf)]
    ELSE [fn |-> fn, buf |-> buf, objs |-> o]

\* buff_ = old_buff; function_ = old_function: the saved bytes come back.
\* The object they were has been destroyed; bytes of an implicit-lifetime
\* type make a new object of that type, bytes of any other type do not.
restore(old_function, old_buff, o, owner) ==
    IF old_function # NULL /\ ImplicitLifetime(old_buff.type)
    THEN [fn   |-> old_function,
          buf  |-> [old_buff EXCEPT !.id = Alloc(o)],
          objs |-> Born(o, owner, old_buff.type, "bytes")]
    ELSE [fn |-> old_function, buf |-> old_buff, objs |-> o]

\* --------------------------------------------------- storing from a value
Forms == {"lvalue", "rvalue"}

\* What _T is deduced as in operator=(_T&& t) and assign(_T&& t): the
\* reference type U& for an lvalue argument, the object type U for an rvalue.
deduced(form) == IF form = "lvalue" THEN "lvalue_reference" ELSE "object"

\* std::is_rvalue_reference<_T>
is_rvalue_reference(D) == D = "rvalue_reference"

\* The constexpr cannot_throw of assign: the trait is asked of _T as deduced.
\* Constructing a reference type from a reference binds it and cannot throw.
cannot_throw(T, form) ==
    LET D == deduced(form) IN
    IF is_rvalue_reference(D)
    THEN (IF D = "object" THEN is_nothrow_move_constructible(T) ELSE TRUE)
    ELSE (IF D = "object" THEN is_nothrow_copy_constructible(T) ELSE TRUE)

\* call_copy_or_move, had both overloads asked for operation_t::copy.
call_copy_or_move_copying(T, o, owner, v, form, throws) ==
    LET arg == [type |-> T, val |-> v, id |-> 0]
        made == op_copy(T, o, owner, arg)
    IN  IF throws /\ MayThrow(T, form = "rvalue")
        THEN [threw |-> TRUE, buf |-> Garbage, objs |-> o]
        ELSE [threw |-> FALSE, buf |-> made.buf, objs |-> made.objs]

\* call_copy_or_move<_T&&>: _T&& is U& for an lvalue (copy), U&& for an
\* rvalue (move).  throws: the constructor throws on this call, if it may.
call_copy_or_move(T, o, owner, v, form, throws) ==
    LET isMove == form = "rvalue"
        arg == [type |-> T, val |-> v, id |-> 0]
        made == IF isMove THEN op_move(T, o, owner, arg)
                          ELSE op_copy(T, o, owner, arg)
    IN  IF throws /\ MayThrow(T, isMove)
        THEN [threw |-> TRUE, buf |-> Garbage, objs |-> o]
        ELSE [threw |-> FALSE, buf |-> made.buf, objs |-> made.objs]

\* static_assert(capacity() >= sizeof(_T)): the operation exists for T.
fits(c, T) == capacity(c) >= query_size(T)

\* static_any::copy_or_move, the body of static_any(_T&& v)
copy_or_move(o, owner, T, v, form, throws) ==
    LET r == call_copy_or_move(T, o, owner, v, form, throws)
    IN  IF r.threw
        THEN [fn |-> NULL, buf |-> r.buf, objs |-> r.objs, threw |-> TRUE]
        ELSE [fn |-> T, buf |-> r.buf, objs |-> r.objs, threw |-> FALSE]

\* if(!cannot_throw) { old_buff = buff_; old_function = function_; }:
\* whether assign saves the bytes and the dispatcher before destroy().
snapshot(T, form) == ~cannot_throw(T, form)

\* static_any::assign, the body of operator=(_T&& t)
assign(fn, buf, o, owner, T, v, form, throws) ==
    LET ct == ~snapshot(T, form)
        old_buff == buf
        old_function == fn
        d == destroy(fn, buf, o)
        r == call_copy_or_move(T, d.objs, owner, v, form, throws)
    IN  IF r.threw
        THEN IF ~ct
             THEN LET back == restore(old_function, old_buff, r.objs, owner)
                  IN  [fn |-> back.fn, buf |-> back.buf, objs |-> back.objs,
                       threw |-> TRUE]
             ELSE [fn |-> d.fn, buf |-> r.buf, objs |-> r.objs, threw |-> TRUE]
        ELSE [fn |-> T, buf |-> r.buf, objs |-> r.objs, threw |-> FALSE]

\* ------------------------------------------- storing from another container
\* copy_or_move_from_another, had it reset the container it moved from.
copy_or_move_from_another_emptying(sfn, sbuf, o, owner, throws) ==
    IF sfn = NULL
    THEN [fn |-> NULL, buf |-> Garbage, objs |-> o, sfn |-> sfn,
          src |-> sbuf, threw |-> FALSE]
    ELSE IF throws /\ MayThrow(sfn, TRUE)
    THEN [fn |-> NULL, buf |-> Garbage, objs |-> o, sfn |-> sfn,
          src |-> sbuf, threw |-> TRUE]
    ELSE LET m == op_move(sfn, o, owner, sbuf)
             d == destroy(sfn, m.src, m.objs)
         IN  [fn |-> sfn, buf |-> m.buf, objs |-> d.objs, sfn |-> d.fn,
              src |-> d.buf, threw |-> FALSE]

\* static_any::copy_or_move_from_another, the body of the constructors from
\* static_any<_M>& and static_any<_M>&&: both hand it an rvalue, and it calls
\* call_copy_or_move<static_any<_M>&&>, which selects operation_t::move.
copy_or_move_from_another(sfn, sbuf, o, owner, throws) ==
    IF sfn = NULL
    THEN [fn |-> NULL, buf |-> Garbage, objs |-> o, sfn |-> sfn,
          src |-> sbuf, threw |-> FALSE]
    ELSE IF throws /\ MayThrow(sfn, TRUE)
    THEN [fn |-> NULL, buf |-> Garbage, objs |-> o, sfn |-> sfn,
          src |-> sbuf, threw |-> TRUE]
    ELSE LET m == op_move(sfn, o, owner, sbuf)
         IN  [fn |-> sfn, buf |-> m.buf, objs |-> m.objs, sfn |-> sfn,
              src |-> m.src, threw |-> FALSE]

\* static_any::assign_from_another, the body of operator=(static_any<_M>&)
\* (form "lvalue") and operator=(static_any<_M>&&) (form "rvalue").
assign_from_another(fn, buf, sfn, sbuf, o, owner, form, throws) ==
    IF sfn = NULL
    THEN LET d == destroy(fn, buf, o)
         IN  [fn |-> d.fn, buf |-> d.buf, objs |-> d.objs, sfn |-> sfn,
              src |-> sbuf, threw |-> FALSE]
    ELSE
    LET nothrow_copy == query_noexcept(sfn)
        old_buff == buf
        old_function == fn
        d == destroy(fn, buf, o)
        isMove == form = "rvalue"
    IN  IF throws /\ MayThrow(sfn, isMove)
        THEN IF ~nothrow_copy
             THEN LET back == restore(old_function, old_buff, d.objs, owner)
                  IN  [fn |-> back.fn, buf |-> back.buf, objs |-> back.objs,
                       sfn |-> sfn, src |-> sbuf, threw |-> TRUE]
             ELSE [fn |-> d.fn, buf |-> Garbage, objs |-> d.objs,
                   sfn |-> sfn, src |-> sbuf, threw |-> TRUE]
        ELSE LET m == IF isMove THEN op_move(sfn, d.objs, owner, sbuf)
                                ELSE op_copy(sfn, d.objs, owner, sbuf)
             IN  [fn |-> sfn, buf |-> m.buf, objs |-> m.objs, sfn |-> sfn,
                  src |-> m.src, threw |-> FALSE]

\* static_any::assign_from_another when another is *this (a = a, form
\* "lvalue"; a = std::move(a), form "rvalue"): another.function_ and
\* another.buff_ are the members destroy() has just written.  A call through
\* a null function_ is undefined; the build jumps to address 0 and the
\* process ends there, stage "null_dispatcher".
assign_from_self(fn, buf, o, owner, form) ==
    IF fn = NULL
    THEN LET d == destroy(fn, buf, o)
         IN  [fn |-> d.fn, buf |-> d.buf, objs |-> d.objs, stage |-> "done"]
    ELSE
    LET d == destroy(fn, buf, o)
        another_function == d.fn
        other_data == d.buf
    IN  IF another_function = NULL
        THEN [fn |-> d.fn, buf |-> d.buf, objs |-> d.objs,
              stage |-> "null_dispatcher"]
        ELSE LET m == IF form = "rvalue"
                      THEN op_move(another_function, d.objs, owner, other_data)
                      ELSE op_copy(another_function, d.objs, owner, other_data)
             IN  [fn |-> another_function, buf |-> m.buf, objs |-> m.objs,
                  stage |-> "done"]

\* ---------------------------------------------------------------- emplace
\* static_any::emplace.  old is the local static_any<_N>; t1, t2, t3: whether
\* the move into old, _T's constructor and the move back throw, if they may.
emplace(fn, buf, o, owner, T, v, t1, t2, t3) ==
    LET keep == fn # NULL /\ query_noexcept(fn)
        \* old = std::move(*this)
        s1 == IF keep
              THEN assign_from_another(NULL, Garbage, fn, buf, o, "old",
                                       "rvalue", t1)
              ELSE [fn |-> NULL, buf |-> Garbage, objs |-> o, sfn |-> fn,
                    src |-> buf, threw |-> FALSE]
        d == destroy(s1.sfn, s1.src, s1.objs)
        \* *this = std::move(old), in the catch block
        s3 == assign_from_another(d.fn, Garbage, s1.fn, s1.buf, d.objs, owner,
                                  "rvalue", t3)
    IN  IF s1.threw
        THEN [fn |-> s1.sfn, buf |-> s1.src, objs |-> s1.objs,
              threw |-> TRUE, stage |-> "save"]
        ELSE IF t2 /\ CtorCanThrow(T)
        THEN IF s1.fn # NULL
             THEN [fn |-> s3.fn, buf |-> s3.buf,
                   objs |-> destroy(s3.sfn, s3.src, s3.objs).objs,
                   threw |-> TRUE,
                   stage |-> IF s3.threw THEN "put_back" ELSE "construct"]
             ELSE [fn |-> d.fn, buf |-> Garbage, objs |-> d.objs,
                   threw |-> TRUE, stage |-> "construct"]
        ELSE [fn |-> T,
              buf |-> [type |-> T, val |-> v, id |-> Alloc(d.objs)],
              objs |-> destroy(s1.fn, s1.buf,
                               Born(d.objs, owner, T, "ctor")).objs,
              threw |-> FALSE, stage |-> "done"]

\* ------------------------------------------------------------- the state
\* What an accessor handed back: the answer of has, the types a
\* bad_any_cast carries, the pointer any_cast returned.
NoOut == [has |-> FALSE, stored_type |-> NULL, target_type |-> NULL,
          ptr |-> NULL]

NoOp == [op |-> "init", c |-> NULL, src |-> NULL, T |-> NULL, val |-> 0,
         form |-> NULL, threw |-> FALSE, stage |-> NULL, out |-> NoOut]

\* static_any() = default, for every container.
Init ==
    /\ alive = [c \in Containers |-> TRUE]
    /\ function_ = [c \in Containers |-> NULL]
    /\ buff_ = [c \in Containers |-> Garbage]
    /\ objs = [i \in ObjIds |-> NoObj]
    /\ gone = <<>>
    /\ last = NoOp
    /\ unit = [c \in Containers |-> "test"]
    /\ tbuff = [t \in TContainers |-> <<>>]

\* The objects of table o whose bytes no container holds, in order.
Unheld(fns, bufs, o) ==
    LET held(i) == \E c \in Containers : fns[c] # NULL /\ bufs[c].id = i
        ids == SelectSeq([i \in ObjIds |-> i],
                         LAMBDA i : o[i].owner # NULL /\ ~held(i))
    IN  [k \in 1 .. Len(ids) |-> o[ids[k]]]

\* The process has not ended in a call through a null dispatcher.
Running == last.stage # "null_dispatcher"

\* The state an operation leaves: the containers as fns and bufs give them,
\* the object each container holds numbered Id(c), the others gone; units
\* gives the unit of each bound dispatcher.  No operation follows the end
\* of the process.
Settle(fns, bufs, o, units) ==
    /\ Running
    /\ function_' = fns
    /\ unit' = [c \in Containers |-> IF fns[c] # NULL THEN units[c] ELSE "test"]
    /\ buff_' = [c \in Containers |->
                    IF fns[c] # NULL THEN [bufs[c] EXCEPT !.id = Id(c)]
                                     ELSE bufs[c]]
    /\ objs' = [i \in ObjIds |->
                   IF i = Id("a") /\ fns["a"] # NULL
                   THEN [o[bufs["a"].id] EXCEPT !.by = NULL, !.killed = 0]
                   ELSE IF i = Id("b") /\ fns["b"] # NULL
                   THEN [o[bufs["b"].id] EXCEPT !.by = NULL, !.killed = 0]
                   ELSE NoObj]
    /\ gone' = Unheld(fns, bufs, o)
    /\ UNCHANGED tbuff

\* static_any a; in a scope the previous a has left.
DefaultConstruct(c) ==
    /\ ~alive[c]
    /\ alive' = [alive EXCEPT ![c] = TRUE]
    /\ Settle([function_ EXCEPT ![c] = NULL],
              [buff_ EXCEPT ![c] = Garbage], objs, unit)
    /\ last' = [NoOp EXCEPT !.op = "default_construct", !.c = c]

\* static_any a(v): static_any(_T&& v)
ConstructFromValue(c, T, v, form, throws) ==
    /\ ~alive[c]
    /\ fits(c, T)
    /\ throws => MayThrow(T, form = "rvalue")
    /\ AlwaysThrows(T) => throws
    /\ LET r == copy_or_move(objs, c, T, v, form, throws)
       IN  /\ alive' = [alive EXCEPT ![c] = ~r.threw]
           /\ Settle([function_ EXCEPT ![c] = r.fn],
                     [buff_ EXCEPT ![c] = r.buf], r.objs,
                     [unit EXCEPT ![c] = "test"])
           /\ last' = [NoOp EXCEPT !.op = "construct", !.c = c, !.T = T,
                                   !.val = IF r.threw THEN 0 ELSE v,
                                   !.form = form, !.threw = r.threw]

\* static_any b(a) / static_any b(std::move(a)): the constructors from
\* static_any<_M>& and static_any<_M>&&, _M <= _N.
ConstructFromAnother(c, s, form, throws) ==
    /\ ~alive[c]
    /\ alive[s]
    /\ s # c
    /\ capacity(s) <= capacity(c)
    /\ throws => function_[s] # NULL /\ MayThrow(function_[s], TRUE)
    /\ function_[s] # NULL /\ AlwaysThrows(function_[s]) => throws
    /\ LET r == copy_or_move_from_another(function_[s], buff_[s], objs, c,
                                          throws)
       IN  /\ alive' = [alive EXCEPT ![c] = ~r.threw]
           /\ Settle([function_ EXCEPT ![c] = r.fn, ![s] = r.sfn],
                     [buff_ EXCEPT ![c] = r.buf, ![s] = r.src], r.objs,
                     [unit EXCEPT ![c] = unit[s]])
           /\ last' = [NoOp EXCEPT !.op = "construct_from", !.c = c,
                                   !.src = s, !.form = form,
                                   !.threw = r.threw]

\* a = v: operator=(_T&& t)
AssignValue(c, T, v, form, throws) ==
    /\ alive[c]
    /\ fits(c, T)
    /\ throws => MayThrow(T, form = "rvalue")
    /\ AlwaysThrows(T) => throws
    /\ LET r == assign(function_[c], buff_[c], objs, c, T, v, form, throws)
       IN  /\ Settle([function_ EXCEPT ![c] = r.fn],
                     [buff_ EXCEPT ![c] = r.buf], r.objs,
                     [unit EXCEPT ![c] = IF r.threw THEN @ ELSE "test"])
           /\ last' = [NoOp EXCEPT !.op = "assign", !.c = c, !.T = T,
                                   !.val = IF r.threw THEN 0 ELSE v,
                                   !.form = form, !.threw = r.threw]
    /\ UNCHANGED alive

\* b = a / b = std::move(a): operator=(static_any<_M>&), operator=(static_any<_M>&&)
AssignFromAnother(c, s, form, throws) ==
    /\ alive[c]
    /\ alive[s]
    /\ s # c
    /\ capacity(s) <= capacity(c)
    /\ throws => function_[s] # NULL /\ MayThrow(function_[s], form = "rvalue")
    /\ function_[s] # NULL /\ AlwaysThrows(function_[s]) => throws
    /\ LET r == assign_from_another(function_[c], buff_[c], function_[s],
                                    buff_[s], objs, c, form, throws)
       IN  /\ Settle([function_ EXCEPT ![c] = r.fn, ![s] = r.sfn],
                     [buff_ EXCEPT ![c] = r.buf, ![s] = r.src], r.objs,
                     [unit EXCEPT ![c] = IF r.threw THEN @ ELSE unit[s]])
           /\ last' = [NoOp EXCEPT !.op = "assign_from", !.c = c,
                                   !.src = s, !.form = form,
                                   !.threw = r.threw]
    /\ UNCHANGED alive

\* a = a / a = std::move(a): operator=(static_any<_M>&) and
\* operator=(static_any<_M>&&) with _M = _N and another bound to *this.
SelfAssign(c, form) ==
    /\ alive[c]
    /\ LET r == assign_from_self(function_[c], buff_[c], objs, c, form)
       IN  /\ Settle([function_ EXCEPT ![c] = r.fn],
                     [buff_ EXCEPT ![c] = r.buf], r.objs, unit)
           /\ last' = [NoOp EXCEPT !.op = "self_assign", !.c = c, !.src = c,
                                   !.form = form, !.stage = r.stage]
    /\ UNCHANGED alive

\* a.emplace<T>(args...)
Emplace(c, T, v, t1, t2, t3) ==
    /\ alive[c]
    /\ t1 => /\ function_[c] # NULL
             /\ query_noexcept(function_[c])
             /\ MayThrow(function_[c], TRUE)
    /\ t2 => ~t1 /\ CtorCanThrow(T)
    /\ t3 => /\ t2
             /\ function_[c] # NULL
             /\ query_noexcept(function_[c])
             /\ MayThrow(function_[c], TRUE)
    /\ LET r == emplace(function_[c], buff_[c], objs, c, T, v, t1, t2, t3)
       IN  /\ Settle([function_ EXCEPT ![c] = r.fn],
                     [buff_ EXCEPT ![c] = r.buf], r.objs,
                     [unit EXCEPT ![c] = IF r.threw THEN @ ELSE "test"])
           /\ last' = [NoOp EXCEPT !.op = "emplace", !.c = c, !.T = T,
                                   !.val = IF r.threw THEN 0 ELSE v,
                                   !.threw = r.threw, !.stage = r.stage]
    /\ UNCHANGED alive

\* a.reset()
Reset(c) ==
    /\ alive[c]
    /\ LET d == destroy(function_[c], buff_[c], objs)
       IN  Settle([function_ EXCEPT ![c] = d.fn],
                  [buff_ EXCEPT ![c] = d.buf], d.objs, unit)
    /\ last' = [NoOp EXCEPT !.op = "reset", !.c = c]
    /\ UNCHANGED alive

\* ~static_any(): the container leaves its scope.
Destructor(c) ==
    /\ alive[c]
    /\ LET d == destroy(function_[c], buff_[c], objs)
       IN  Settle([function_ EXCEPT ![c] = d.fn],
                  [buff_ EXCEPT ![c] = Garbage], d.objs, unit)
    /\ alive' = [alive EXCEPT ![c] = FALSE]
    /\ last' = [NoOp EXCEPT !.op = "destructor", !.c = c]

Next ==
    \/ \E c \in Containers : DefaultConstruct(c)
    \/ \E c \in Containers, T \in Types, form \in Forms, throws \in BOOLEAN :
          \E v \in Values(T) : ConstructFromValue(c, T, v, form, throws)
    \/ \E c, s \in Containers, form \in Forms, throws \in BOOLEAN :
          ConstructFromAnother(c, s, form, throws)
    \/ \E c \in Containers, T \in Types, form \in Forms, throws \in BOOLEAN :
          \E v \in Values(T) : AssignValue(c, T, v, form, throws)
    \/ \E c, s \in Containers, form \in Forms, throws \in BOOLEAN :
          AssignFromAnother(c, s, form, throws)
    \/ \E c \in Containers, form \in Forms : SelfAssign(c, form)
    \/ \E c \in Containers, T \in Types, t1, t2, t3 \in BOOLEAN :
          \E v \in Values(T) : Emplace(c, T, v, t1, t2, t3)
    \/ \E c \in Containers : Reset(c)
    \/ \E c \in Containers : Destructor(c)

Spec == Init /\ [][Next]_vars

\* -------------------------------------------------------------- observers
\* static_any::empty
empty(c) == function_[c] = NULL

\* static_any::size
size(c) == IF empty(c) THEN 0 ELSE query_size(function_[c])

\* static_any::type: typeid(void) when empty, else what query_type reports.
type(c) == IF empty(c) THEN "void" ELSE function_[c]

\* The object whose bytes container c holds is constructed and not destroyed.
Live(c) ==
    /\ buff_[c].id = Id(c)
    /\ objs[Id(c)].owner = c
    /\ objs[Id(c)].dtors = 0

\* What a caller can observe of container c: its type, its payload, and
\* whether the payload is an object that may still be used.
Obs(c) ==
    IF empty(c)
    THEN [type |-> "void", val |-> 0, live |-> FALSE]
    ELSE [type |-> type(c), val |-> buff_[c].val, live |-> Live(c)]

\* get_function_for_type<_T>(), called in "test": the address of that
\* unit's instance of operation<_T>.
get_function_for_type(T) == [type |-> T, unit |-> "test"]

\* The value of the member function_ of c: the address of one unit's
\* instance of operation<type>, or the null pointer.
function_ptr(c) == [type |-> function_[c], unit |-> unit[c]]

\* static_any::query_type: the typeid the bound dispatcher reports.
query_type(c) == function_[c]

\* static_any::has<_T>, had it compared the dispatcher addresses only.
has_by_address(c, T) ==
    function_ptr(c) = get_function_for_type(T)

\* static_any::has<_T>
has(c, T) ==
    IF function_ptr(c) = get_function_for_type(T)
    THEN TRUE
    ELSE IF function_[c] # NULL
    THEN T = query_type(c)
    ELSE FALSE

\* any_cast with the types of its bad_any_cast exchanged.
any_cast_ref_swapped(c, T) ==
    IF ~has(c, T)
    THEN [threw |-> TRUE, stored_type |-> T, target_type |-> type(c),
          val |-> 0]
    ELSE [threw |-> FALSE, stored_type |-> NULL, target_type |-> NULL,
          val |-> buff_[c].val]

\* any_cast<_ValueT>(static_any<_S>&): throws bad_any_cast(a.type(),
\* typeid(_ValueT)) unless has<_ValueT>(), else returns *as<_ValueT>().
any_cast_ref(c, T) ==
    IF ~has(c, T)
    THEN [threw |-> TRUE, stored_type |-> type(c), target_type |-> T,
          val |-> 0]
    ELSE [threw |-> FALSE, stored_type |-> NULL, target_type |-> NULL,
          val |-> buff_[c].val]

\* static_any::get<_T>: return any_cast<_T>(*this)
get(c, T) == any_cast_ref(c, T)

\* any_cast on a pointer, had it not asked has.
any_cast_ptr_unchecked(c, T) ==
    [ptr |-> c, val |-> buff_[c].val]

\* any_cast<_ValueT>(static_any<_S>*): nullptr unless has<_ValueT>(), else
\* as<_ValueT>(), the address of the buffer of c.
any_cast_ptr(c, T) ==
    IF ~has(c, T)
    THEN [ptr |-> NULL, val |-> 0]
    ELSE [ptr |-> c, val |-> buff_[c].val]

\* --------------------------------------------------------------- accessors
\* auto a = get_any_with_int(v): a container holding the int v, made by the
\* library, so bound to the library's instance of operation<int>.
GetAnyWithInt(c, v) ==
    /\ ~alive[c]
    /\ fits(c, "int")
    /\ alive' = [alive EXCEPT ![c] = TRUE]
    /\ Settle([function_ EXCEPT ![c] = "int"],
              [buff_ EXCEPT ![c] = [type |-> "int", val |-> v,
                                    id |-> Alloc(objs)]],
              Born(objs, c, "int", "move"),
              [unit EXCEPT ![c] = "dyn_lib"])
    /\ last' = [NoOp EXCEPT !.op = "get_any_with_int", !.c = c,
                            !.T = "int", !.val = v]

\* The accessors are const: they leave the containers as they are.
Untouched ==
    /\ Settle(function_, buff_, objs, unit)
    /\ UNCHANGED alive

\* a.has<T>()
Has(c, T) ==
    /\ alive[c]
    /\ Untouched
    /\ last' = [NoOp EXCEPT !.op = "has", !.c = c, !.T = T,
                            !.out = [NoOut EXCEPT !.has = has(c, T)]]

\* a.get<T>()
Get(c, T) ==
    /\ alive[c]
    /\ Untouched
    /\ LET r == get(c, T)
       IN  last' = [NoOp EXCEPT !.op = "get", !.c = c, !.T = T,
                               !.threw = r.threw, !.val = r.val,
                               !.out = [NoOut EXCEPT
                                           !.stored_type = r.stored_type,
                                           !.target_type = r.target_type]]

\* any_cast<T>(a)
AnyCastRef(c, T) ==
    /\ alive[c]
    /\ Untouched
    /\ LET r == any_cast_ref(c, T)
       IN  last' = [NoOp EXCEPT !.op = "any_cast_ref", !.c = c, !.T = T,
                               !.threw = r.threw, !.val = r.val,
                               !.out = [NoOut EXCEPT
                                           !.stored_type = r.stored_type,
                                           !.target_type = r.target_type]]

\* any_cast<T>(&a)
AnyCastPtr(c, T) ==
    /\ alive[c]
    /\ Untouched
    /\ LET r == any_cast_ptr(c, T)
       IN  last' = [NoOp EXCEPT !.op = "any_cast_ptr", !.c = c, !.T = T,
                               !.val = r.val,
                               !.out = [NoOut EXCEPT !.ptr = r.ptr]]

\* The containers as the accessors meet them: made by this unit or by the
\* library, copied and moved between each other, reset and destroyed.
AccessNext ==
    \/ \E c \in Containers : \E v \in Values("int") : GetAnyWithInt(c, v)
    \/ \E c \in Containers, T \in Types : Has(c, T)
    \/ \E c \in Containers, T \in Types : Get(c, T)
    \/ \E c \in Containers, T \in Types : AnyCastRef(c, T)
    \/ \E c \in Containers, T \in Types : AnyCastPtr(c, T)
    \/ \E c \in Containers : DefaultConstruct(c)
    \/ \E c \in Containers, T \in Types, form \in Forms, throws \in BOOLEAN :
          \E v \in Values(T) : ConstructFromValue(c, T, v, form, throws)
    \/ \E c, s \in Containers, form \in Forms, throws \in BOOLEAN :
          ConstructFromAnother(c, s, form, throws)
    \/ \E c, s \in Containers, form \in Forms, throws \in BOOLEAN :
          AssignFromAnother(c, s, form, throws)
    \/ \E c \in Containers : Reset(c)
    \/ \E c \in Containers : Destructor(c)

SpecAccess == Init /\ [][AccessNext]_vars

\* What CallCounter's counters count, for the object table o an operation
\* leaves: the copy and move constructions, the other constructions and the
\* destructor runs of that operation.
Calls(o) ==
    [copy    |-> Cardinality({i \in ObjIds : o[i].by = "copy"}),
     move    |-> Cardinality({i \in ObjIds : o[i].by = "move"}),
     ctor    |-> Cardinality({i \in ObjIds : o[i].by = "ctor"}),
     destroy |-> Cardinality({i \in ObjIds : o[i].killed >= 1})
                 + Cardinality({i \in ObjIds : o[i].killed >= 2})]

\* ----------------------------------------------- static_any_t operations
\* The static_any containers are not involved.
Aside == UNCHANGED <<alive, function_, buff_, objs, gone, unit>>

\* static_any_t a; the storage is not initialized: junk.
TDefaultConstruct(t, junk) ==
    /\ tbuff[t] = <<>>
    /\ tbuff' = [tbuff EXCEPT ![t] = junk]
    /\ last' = [NoOp EXCEPT !.op = "t_default_construct", !.c = t]
    /\ Aside

\* static_any_t a(v): static_any_t(_ValueT&& t), for a value v of type T
TConstructFromValue(t, T, v, junk) ==
    /\ tbuff[t] = <<>>
    /\ TN(t) >= tsizeof(T)
    /\ tbuff' = [tbuff EXCEPT ![t] = copy(junk, v, tsizeof(T))]
    /\ last' = [NoOp EXCEPT !.op = "t_construct", !.c = t, !.T = T,
                            !.val = v]
    /\ Aside

\* static_any_t b(a) / static_any_t b(std::move(a)): static_any_t(_ValueT&&)
\* with _ValueT the container type, of size TN(s).
TConstructFromAnother(t, s, form, junk) ==
    /\ tbuff[t] = <<>>
    /\ tbuff[s] # <<>>
    /\ TN(t) >= TN(s)
    /\ tbuff' = [tbuff EXCEPT ![t] = copy(junk, tbuff[s], TN(s))]
    /\ last' = [NoOp EXCEPT !.op = "t_construct_from", !.c = t, !.src = s,
                            !.form = form]
    /\ Aside

\* a = v: operator=(_ValueT&& t)
TAssignValue(t, T, v) ==
    /\ tbuff[t] # <<>>
    /\ TN(t) >= tsizeof(T)
    /\ tbuff' = [tbuff EXCEPT ![t] = copy(@, v, tsizeof(T))]
    /\ last' = [NoOp EXCEPT !.op = "t_assign", !.c = t, !.T = T, !.val = v]
    /\ Aside

\* b = a / b = std::move(a): operator=(_ValueT&& t) with the container type
TAssignFromAnother(t, s, form) ==
    /\ tbuff[t] # <<>>
    /\ tbuff[s] # <<>>
    /\ s # t
    /\ TN(t) >= TN(s)
    /\ tbuff' = [tbuff EXCEPT ![t] = copy(@, tbuff[s], TN(s))]
    /\ last' = [NoOp EXCEPT !.op = "t_assign_from", !.c = t, !.src = s,
                            !.form = form]
    /\ Aside

\* a.get<T>()
TGet(t, T) ==
    /\ tbuff[t] # <<>>
    /\ TN(t) >= tsizeof(T)
    /\ last' = [NoOp EXCEPT !.op = "t_get", !.c = t, !.T = T,
                            !.val = tget(tbuff[t], tsizeof(T))]
    /\ UNCHANGED tbuff
    /\ Aside

\* The trivial container leaves its scope.
TDestructor(t) ==
    /\ tbuff[t] # <<>>
    /\ tbuff' = [tbuff EXCEPT ![t] = <<>>]
    /\ last' = [NoOp EXCEPT !.op = "t_destructor", !.c = t]
    /\ Aside

TrivialNext ==
    \/ \E t \in TContainers : \E junk \in Reps(TN(t)) :
          TDefaultConstruct(t, junk)
    \/ \E t \in TContainers, T \in TTypes :
          \E v \in Reps(tsizeof(T)), junk \in Reps(TN(t)) :
              TConstructFromValue(t, T, v, junk)
    \/ \E t, s \in TContainers, form \in Forms :
          \E junk \in Reps(TN(t)) : TConstructFromAnother(t, s, form, junk)
    \/ \E t \in TContainers, T \in TTypes :
          \E v \in Reps(tsizeof(T)) : TAssignValue(t, T, v)
    \/ \E t, s \in TContainers, form \in Forms : TAssignFromAnother(t, s, form)
    \/ \E t \in TContainers, T \in TTypes : TGet(t, T)
    \/ \E t \in TContainers : TDestructor(t)

SpecTrivial == Init /\ [][TrivialNext]_vars

\* ------------------------------------------------------------------ claims

\* C1: value assignment is failure-atomic: when operator=(value) throws, for
\* an lvalue or an rvalue, the container is observably as it was before: the
\* same type and payload if it held a value, still empty if it was empty.
C1_ValueAssignFailureAtomic ==
    [][\A c \in Containers :
          (last'.op = "assign" /\ last'.c = c /\ last'.threw)
              => Obs(c)' = Obs(c)]_vars

\* C2: assignment from another container, copy form or move form, is
\* failure-atomic for every payload type of the source: when the payload's
\* constructor throws, the destination is observably as it was before.
C2_ContainerAssignFailureAtomic ==
    [][\A c \in Containers :
          (last'.op = "assign_from" /\ last'.c = c /\ last'.threw)
              => Obs(c)' = Obs(c)]_vars

\* C3: every payload object constructed in a container's buffer has its
\* destructor run exactly once by the time its container is destroyed: an
\* object whose bytes no buffer holds any more was destroyed exactly once,
\* and a destroyed container holds no object.
C3_DestructorExactlyOnce ==
    /\ \A k \in DOMAIN gone : gone[k].dtors = 1
    /\ \A i \in ObjIds : objs[i].dtors <= 1
    /\ \A c \in Containers : ~alive[c] => objs[Id(c)] = NoObj

\* C4: between operations the dispatcher is non-null if and only if one
\* live object occupies the buffer, and that object has the type the
\* dispatcher is bound for; also after an assignment that threw and restored.
C4_DispatcherIffLiveObject ==
    \A c \in Containers :
        alive[c] =>
            /\ function_[c] # NULL <=> Live(c)
            /\ function_[c] # NULL =>
                   /\ objs[Id(c)].type = function_[c]
                   /\ buff_[c].type = function_[c]

\* C5: every operation that stores a value rejects a type larger than the
\* capacity, so in every reachable state size() <= capacity().
C5_SizeWithinCapacity ==
    \A c \in Containers : size(c) <= capacity(c)

\* The last operation stored into c from container s, in the given form,
\* and did not throw.
StoredFrom(c, s, ops, form) ==
    /\ last'.op \in ops
    /\ last'.c = c
    /\ last'.src = s
    /\ last'.form = form
    /\ ~last'.threw

\* C6: copying a container (copy construction or copy assignment from an
\* lvalue container) gives the destination the source's type and a copy of
\* its value and leaves the source unaffected: same type, unchanged payload.
\* An empty source gives an empty destination.
C6_CopyLeavesSourceUnaffected ==
    [][\A c, s \in Containers :
          StoredFrom(c, s, {"construct_from", "assign_from"}, "lvalue")
              => /\ Obs(s)' = Obs(s)
                 /\ type(c)' = type(s)
                 /\ ~empty(s) => buff_'[c].val = buff_[s].val /\ Live(c)']_vars

\* C7, as stated: moving a non-empty container into another (move
\* construction or move assignment) empties the source, and the destination
\* holds the value.
C7_MoveEmptiesSource ==
    [][\A c, s \in Containers :
          (StoredFrom(c, s, {"construct_from", "assign_from"}, "rvalue")
             /\ ~empty(s))
              => /\ empty(s)'
                 /\ type(c)' = type(s)
                 /\ buff_'[c].val = buff_[s].val]_vars

\* C7, amended: moving a non-empty container into another (move construction
\* or move assignment) does not empty the source: afterwards the destination
\* holds the value as a live object of the source's type, and the source is
\* still bound to the same type, holding the moved-from payload.
C7_MoveKeepsSourceBound ==
    [][\A c, s \in Containers :
          (StoredFrom(c, s, {"construct_from", "assign_from"}, "rvalue")
             /\ ~empty(s))
              => /\ type(s)' = type(s)
                 /\ buff_'[s].val = IF MoveChangesSource(type(s))
                                    THEN MovedFromVal
                                    ELSE buff_[s].val
                 /\ type(c)' = type(s)
                 /\ buff_'[c].val = buff_[s].val
                 /\ Live(c)']_vars

\* A move assignment from a string left the source bound, moved from.
C7_Witness ==
    /\ last.op = "assign_from"
    /\ last.form = "rvalue"
    /\ ~last.threw
    /\ type(last.src) = "string"
    /\ buff_[last.src].val = MovedFromVal
    /\ type(last.c) = "string"
    /\ buff_[last.c].val = 1

\* C8: after move-constructing container b from a non-empty container a,
\* both a and b are non-empty, and b holds the value a held before the move.
C8_MoveConstructBothNonEmpty ==
    [][\A c, s \in Containers :
          (StoredFrom(c, s, {"construct_from"}, "rvalue") /\ ~empty(s))
              => /\ ~empty(s)'
                 /\ ~empty(c)'
                 /\ alive'[c]
                 /\ type(c)' = type(s)
                 /\ buff_'[c].val = buff_[s].val]_vars

\* b was move-constructed from a, and both hold an int.
C8_Witness ==
    /\ last.op = "construct_from"
    /\ last.form = "rvalue"
    /\ ~last.threw
    /\ last.c = "b"
    /\ last.src = "a"
    /\ type("a") = "int"
    /\ type("b") = "int"
    /\ buff_["b"].val = buff_["a"].val

\* emplace could keep the old value of c aside: !empty() && query_noexcept().
Preservable(c) == ~empty(c) /\ query_noexcept(function_[c])

\* C9: when emplace<T> is called on a container whose value's type reports
\* no-throw copy or move construction and T's constructor throws, the old
\* value is restored: the container holds the original type and payload.
C9_EmplaceRestoresOldValue ==
    [][\A c \in Containers :
          (/\ last'.op = "emplace"
           /\ last'.c = c
           /\ last'.threw
           /\ last'.stage \in {"construct", "put_back"}
           /\ Preservable(c))
              => /\ type(c)' = type(c)
                 /\ buff_'[c].val = buff_[c].val
                 /\ Live(c)']_vars

\* C10: when emplace<T> throws and no old value could be preserved (the
\* container was empty, or the old type does not report no-throw copy/move
\* construction), the container is empty afterwards, bound neither to T nor
\* to the old type, and the old value, if any, has been destroyed exactly
\* once: it is the one object the operation left behind, and its destructor
\* has run once.
C10_EmplaceFailureLeavesEmpty ==
    [][\A c \in Containers :
          (/\ last'.op = "emplace"
           /\ last'.c = c
           /\ last'.threw
           /\ ~Preservable(c))
              => /\ empty(c)'
                 /\ size(c)' = 0
                 /\ empty(c) => gone' = <<>>
                 /\ ~empty(c) =>
                        /\ Len(gone') = 1
                        /\ gone'[1].owner = c
                        /\ gone'[1].type = function_[c]
                        /\ gone'[1].dtors = 1]_vars

\* C11: after a value v of a type T with sizeof(T) <= N is successfully
\* stored by construction, by value assignment or by emplace<T>, the
\* container reports has<T>(), !empty(), size() == sizeof(T), has<U>() for no
\* other type U, and get<T>() returns a value equal to v.
C11_StoredValueObservable ==
    \A c \in Containers :
        (/\ last.op \in {"construct", "assign", "emplace"}
         /\ last.c = c
         /\ ~last.threw
         /\ fits(c, last.T))
            => /\ has(c, last.T)
               /\ ~empty(c)
               /\ size(c) = query_size(last.T)
               /\ \A U \in Types \ {last.T} : ~has(c, U)
               /\ ~get(c, last.T).threw
               /\ get(c, last.T).val = last.val

\* The int 2 was assigned as an lvalue and is read back.
C11_Witness ==
    /\ last.op = "assign"
    /\ last.form = "lvalue"
    /\ ~last.threw
    /\ last.T = "int"
    /\ last.val = 2
    /\ has(last.c, "int")
    /\ get(last.c, "int").val = 2

\* C12: reset() on a non-empty container yields empty(), size() == 0 and
\* has<T>() false for every T, and invokes the payload's destructor exactly
\* once; on an empty container it changes nothing and invokes no destructor.
C12_ResetEmptiesAndIsIdempotent ==
    [][\A c \in Containers :
          (last'.op = "reset" /\ last'.c = c)
              => /\ empty(c)'
                 /\ size(c)' = 0
                 /\ \A T \in Types : ~has(c, T)'
                 /\ ~empty(c) =>
                        /\ Len(gone') = 1
                        /\ gone'[1].type = function_[c]
                        /\ gone'[1].killed = 1
                 /\ empty(c) =>
                        /\ gone' = <<>>
                        /\ UNCHANGED <<alive, function_, buff_, objs, unit>>]_vars

\* A container that held a CallCounter was reset: it is empty, and the
\* CallCounter's destructor ran once.
C12_Witness ==
    /\ last.op = "reset"
    /\ empty(last.c)
    /\ Len(gone) = 1
    /\ gone[1].type = "CallCounter"
    /\ gone[1].killed = 1
    /\ gone[1].dtors = 1

\* The last operation was the accessor op on container c, asked for type T.
Accessed(c, T, ops) ==
    /\ last'.op \in ops
    /\ last'.c = c
    /\ last'.T = T

\* C13: get<T>() and the reference-returning any_cast<T> on a container for
\* which has<T>() is false, an empty one included, raise bad_any_cast whose
\* stored_type() is the container's type() (the sentinel of typeid(void) when
\* empty) and whose target_type() is T, and leave the container unchanged.
C13_BadCastReportsTypes ==
    [][\A c \in Containers, T \in Types :
          (Accessed(c, T, {"get", "any_cast_ref"}) /\ ~has(c, T))
              => /\ last'.threw
                 /\ last'.out.stored_type = type(c)
                 /\ last'.out.stored_type =
                        (IF function_[c] = NULL THEN "void" ELSE buff_[c].type)
                 /\ last'.out.target_type = T
                 /\ UNCHANGED <<alive, function_, buff_, objs, unit>>]_vars

\* any_cast<string> on a container holding an int threw, reporting int and
\* string.
C13_Witness ==
    /\ last.op = "any_cast_ref"
    /\ last.threw
    /\ last.out.stored_type = "int"
    /\ last.out.target_type = "string"
    /\ has(last.c, "int")

\* C14: the pointer-returning any_cast<T> never throws: it returns a pointer
\* to the held value if has<T>() is true and a null pointer otherwise (wrong
\* type or empty container), leaving the container unchanged.
C14_PointerCastNeverThrows ==
    [][\A c \in Containers, T \in Types :
          Accessed(c, T, {"any_cast_ptr"})
              => /\ ~last'.threw
                 /\ has(c, T) => /\ last'.out.ptr = c
                                 /\ last'.val = buff_[c].val
                 /\ ~has(c, T) => last'.out.ptr = NULL
                 /\ UNCHANGED <<alive, function_, buff_, objs, unit>>]_vars

\* any_cast<string>(&a) on a container holding an int returned nullptr.
C14_Witness ==
    /\ last.op = "any_cast_ptr"
    /\ last.T = "string"
    /\ last.out.ptr = NULL
    /\ function_[last.c] = "int"

\* C15: has<T>() is true if and only if the container holds exactly type T,
\* whichever unit instantiated the bound dispatcher: also when the bound
\* dispatcher is another instance than the caller's for T; false when empty.
C15_HasIsByTypeIdentity ==
    [][\A c \in Containers, T \in Types :
          Accessed(c, T, {"has"})
              => /\ last'.out.has <=> (/\ function_[c] # NULL
                                       /\ buff_[c].type = T
                                       /\ objs[Id(c)].type = T)
                 /\ function_[c] = NULL => ~last'.out.has]_vars

\* has<int>() answered true on a container the library made.
C15_Witness ==
    /\ last.op = "has"
    /\ last.T = "int"
    /\ last.out.has
    /\ unit[last.c] = "dyn_lib"
    /\ function_ptr(last.c) # get_function_for_type("int")

\* C16: in every reachable state the observers agree: empty() iff no
\* dispatcher is bound, iff size() == 0, iff type() is the sentinel of
\* typeid(void); when non-empty, size() is sizeof of the stored type and
\* type() is the stored type; capacity() is N.
C16_ObserversAgree ==
    \A c \in Containers :
        /\ empty(c) <=> function_[c] = NULL
        /\ empty(c) <=> size(c) = 0
        /\ empty(c) <=> type(c) = "void"
        /\ ~empty(c) => /\ size(c) = sizeof(buff_[c].type)
                        /\ size(c) = sizeof(objs[Id(c)].type)
                        /\ type(c) = buff_[c].type
                        /\ type(c) = objs[Id(c)].type
        /\ capacity(c) = N(c)

\* a holds a string (size 32), b is empty (size 0).
C16_Witness ==
    /\ ~empty("a")
    /\ size("a") = 32
    /\ type("a") = "string"
    /\ alive["b"]
    /\ empty("b")
    /\ size("b") = 0
    /\ type("b") = "void"

\* The last operation stored a value in c by op, in the given form, and did
\* not throw; o is the object table the operation left.
StoredValue(c, op, T, v, form) ==
    /\ last'.op = op
    /\ last'.c = c
    /\ last'.T = T
    /\ last'.val = v
    /\ last'.form = form
    /\ ~last'.threw

C18_ReassignmentCounts ==
    [][\A c \in Containers, T \in {"CallCounter"} :
          \A v \in Values(T) :
              (/\ last.op = "construct" /\ last.c = c /\ last.T = T
               /\ last.form = "lvalue" /\ ~last.threw
               /\ StoredValue(c, "assign", T, v, "lvalue"))
                  => LET k == Calls(assign(function_[c], buff_[c], objs, c, T,
                                           v, "lvalue", FALSE).objs)
                     IN  /\ 1 + k.copy = 2
                         /\ k.move = 1
                         /\ k.destroy = 2
                         /\ k.ctor = 0]_vars

\* C19: move-constructing or move-assigning a container from another
\* non-empty container invokes the payload's move constructor exactly once
\* and neither its copy constructor nor its default constructor, whether the
\* destination was empty or held a value of another type.
C19_ContainerMoveMovesOnce ==
    [][\A c, s \in Containers :
          LET made == Calls(copy_or_move_from_another(
                                function_[s], buff_[s], objs, c, FALSE).objs)
              put == Calls(assign_from_another(
                               function_[c], buff_[c], function_[s], buff_[s],
                               objs, c, "rvalue", FALSE).objs)
              once(k) == k.move = 1 /\ k.copy = 0 /\ k.ctor = 0
          IN  /\ (StoredFrom(c, s, {"construct_from"}, "rvalue") /\ ~empty(s))
                     => once(made)
              /\ (StoredFrom(c, s, {"assign_from"}, "rvalue") /\ ~empty(s))
                     => once(put)]_vars

\* A container holding a CallCounter was move-assigned to one that held an
\* int.
C19_Witness ==
    /\ last.op = "assign_from"
    /\ last.form = "rvalue"
    /\ ~last.threw
    /\ type(last.c) = "CallCounter"
    /\ type(last.src) = "CallCounter"
    /\ Len(gone) = 1
    /\ gone[1].type = "int"

\* C20: trivial container round trip: for every trivially copyable T with
\* sizeof(T) <= N, get<T>() after storing a value v (by construction or by
\* assignment) returns a byte-identical value; copying or moving one trivial
\* container into another transfers the whole capacity region, so the
\* copy's get<T>() equals the source's, and the source is unchanged.
C20_TrivialRoundTrip ==
    [][/\ \A t \in TContainers, T \in TTypes :
              (/\ last.op \in {"t_construct", "t_assign"}
               /\ last.c = t
               /\ last.T = T
               /\ last'.op = "t_get"
               /\ last'.c = t
               /\ last'.T = T)
                  => last'.val = last.val
       /\ \A t \in TContainers, T \in TTypes :
              (last'.op \in {"t_construct", "t_assign"}
                   /\ last'.c = t /\ last'.T = T)
                  => tget(tbuff'[t], tsizeof(T)) = last'.val
       /\ \A t, s \in TContainers :
              (last'.op \in {"t_construct_from", "t_assign_from"}
                   /\ last'.c = t /\ last'.src = s)
                  => /\ tbuff'[t] = tbuff[s]
                     /\ Len(tbuff'[t]) = TN(t)
                     /\ tbuff'[s] = tbuff[s]
                     /\ \A T \in TTypes :
                            tget(tbuff'[t], tsizeof(T))
                                = tget(tbuff[s], tsizeof(T))]_vars

\* A short was stored in ta and read back; tb is a copy of ta.
C20_Witness ==
    /\ last.op = "t_get"
    /\ last.c = "tb"
    /\ last.T = "short"
    /\ last.val = <<1, 0>>
    /\ tbuff["ta"] = <<1, 0>>
    /\ tbuff["tb"] = <<1, 0>>

\* The constructor a value assignment invokes, the copy constructor for an
\* lvalue and the move constructor for an rvalue, is declared not to throw.
StaticallyNoThrow(T, form) ==
    IF form = "lvalue" THEN is_nothrow_copy_constructible(T)
                       ELSE is_nothrow_move_constructible(T)

\* C21: value assignment takes a rollback snapshot (bytes and dispatcher)
\* before destroying the old value exactly when the constructor it is about
\* to invoke (copy for an lvalue, move for an rvalue) is not statically known
\* to be no-throw; on an exception with a snapshot it restores both bytes and
\* dispatcher and re-throws.
C21_SnapshotIffMayThrow ==
    [][\A c \in Containers, T \in Types, form \in Forms :
          (last'.op = "assign" /\ last'.c = c /\ last'.T = T
               /\ last'.form = form)
              => /\ snapshot(T, form) <=> ~StaticallyNoThrow(T, form)
                 /\ (last'.threw /\ snapshot(T, form))
                        => /\ function_'[c] = function_[c]
                           /\ buff_'[c].type = buff_[c].type
                           /\ buff_'[c].val = buff_[c].val]_vars

\* C22: self-assignment is safe: assigning a non-empty container to itself
\* (a = a, or a = std::move(a)) never invokes a null dispatcher or reads a
\* destroyed payload, and afterwards the container still holds a live value
\* of its original type.
C22_SelfAssignmentSafe ==
    [][\A c \in Containers :
          (last'.op = "self_assign" /\ last'.c = c /\ ~empty(c))
              => /\ last'.stage # "null_dispatcher"
                 /\ type(c)' = type(c)
                 /\ Live(c)']_vars

\* C23: storing a value of type T into a trivial container of capacity N
\* overwrites only the first sizeof(T) bytes of the buffer: the bytes from
\* sizeof(T) to N-1 keep whatever they held before, and a subsequent
\* container copy carries those stale bytes along.
C23_StoreKeepsTailBytes ==
    [][/\ \A t \in TContainers, T \in TTypes :
              (last'.op = "t_assign" /\ last'.c = t /\ last'.T = T)
                  => /\ \A i \in 1 .. tsizeof(T) : tbuff'[t][i] = last'.val[i]
                     /\ \A i \in tsizeof(T) + 1 .. TN(t) :
                            tbuff'[t][i] = tbuff[t][i]
       /\ \A t, s \in TContainers, T \in TTypes :
              (last'.op \in {"t_construct_from", "t_assign_from"}
                   /\ last'.c = t /\ last'.src = s)
                  => \A i \in tsizeof(T) + 1 .. TN(s) :
                         tbuff'[t][i] = tbuff[s][i]]_vars

\* A char 0 was stored in ta: the second byte of the buffer is not the
\* char's and still holds the 1 it held before.
C23_Witness ==
    /\ last.op = "t_assign"
    /\ last.c = "ta"
    /\ last.T = "char"
    /\ last.val = <<0>>
    /\ tbuff["ta"] = <<0, 1>>

====
